---- MODULE Spec2Model ----
(***************************************************************************)
(* Model of the annotation store REST layer (annotator/store.py).          *)
(*                                                                         *)
(* An annotation, a JSON request body and a set of query arguments are     *)
(* records with an optional set of keys (a Python dict).  Every request is *)
(* one action: before_request binds the caller, the route handler calls    *)
(* the authorization and storage collaborators and produces the response,  *)
(* after_request decorates it.  What the authorization collaborator        *)
(* answers for the annotation and the caller is an input of the request,   *)
(* as is whether the embedding application has registered a hook.  A hook  *)
(* is a call of the application's code; the model records the call and     *)
(* takes the annotation to come back as it went in.  finish_request drops  *)
(* the request context, after which the next request is taken.             *)
(*                                                                         *)
(* The storage collaborator (annotator.annotation.Annotation) is modelled  *)
(* by what this module relies on: fetch by id, save that assigns id and    *)
(* timestamps on the first save, delete, and search and count over the     *)
(* stored annotations with an offset of 0 and a limit of 20 by default.    *)
(***************************************************************************)
EXTENDS Integers, Sequences, FiniteSets, TLC

VARIABLES
    store,      \* storage collaborator: annotation id -> stored annotation
    nextId,     \* storage collaborator: next id it hands out
    deleted,    \* ids removed by delete and not stored again since
    creator,    \* id of a stored annotation -> g.user of the request that created it
    pc,         \* "idle": waiting for a request; "handled": a handler returned
    req,        \* the request in the request context
    status,     \* status of the response
    body,       \* body of the response
    headers,    \* headers set on the response by after_request
    calls,      \* collaborator calls of this request, in order
    saveArgs,   \* the annotations handed to save in this request, in order
    queries     \* the queries storage built for search and count in this request

vars == <<store, nextId, deleted, creator, pc, req, status, body, headers, calls, saveArgs,
          queries>>

----------------------------------------------------------------------------
(* Bounds and input domains *)

\* storage hands out the ids 1 .. MaxAnnotations
MaxAnnotations == 1

\* the ids of URLs and bodies: those storage hands out and one it never does
Ids == 1 .. (MaxAnnotations + 1)

None == "None"
EmptyRec == [k \in {} |-> 0]

Users == {"u1", "u2"}

\* g.user.id and g.user.consumer.key of a resolved user
UserId(u) == u
ConsumerKey(u) == IF u = "u1" THEN "c1" ELSE "c2"

\* the two forms of a `user` value: a bare identifier, or a mapping, given
\* by its `id` (None for a mapping without `id`; EmptyUserMap is {})
UserStr(u) == <<"str", u>>
UserMap(u) == <<"map", u>>
EmptyUserMap == <<"map", "{}">>
UserVals == {UserStr(u) : u \in Users} \cup {UserMap(u) : u \in Users}

ClientTs == "client_ts"
ServerTs == "server_ts"
ClientConsumer == "cX"
Absent == "absent"

PermVals == {{}, {"u1"}}

Opt(k, v) == IF v = Absent THEN EmptyRec ELSE (k :> v)

\* one-key JSON objects, and the object with the three provenance keys
Fragments ==
    {EmptyRec}
    \cup {"id" :> i : i \in Ids}
    \cup {"user" :> u : u \in UserVals}
    \cup {"permissions" :> p : p \in PermVals}
    \cup {"created" :> ClientTs, "updated" :> ClientTs, "consumer" :> ClientConsumer}
    \cup {[created |-> ClientTs, updated |-> ClientTs, consumer |-> ClientConsumer]}

\* request.json: the empty object stands for a missing body as well, both are false
Bodies == Fragments

----------------------------------------------------------------------------
(* store.py: constants and helpers *)

\* variant: `created` is let through on create
CREATE_FILTER_FIELDS_m == {"updated", "consumer"}
CREATE_FILTER_FIELDS == {"updated", "created", "consumer"}

\* variant: `user` is let through on update
UPDATE_FILTER_FIELDS_m == {"updated", "created", "consumer"}
UPDATE_FILTER_FIELDS == {"updated", "created", "user", "consumer"}

\* dict.update: keys of u replace those of a, the others stay
DictUpdate(a, u) ==
    [k \in (DOMAIN a) \cup (DOMAIN u) |-> IF k \in DOMAIN u THEN u[k] ELSE a[k]]

\* Python truth value of a dict
Truthy(obj) == DOMAIN obj # {}

_filter_input(obj, fields) == [k \in (DOMAIN obj) \ fields |-> obj[k]]

\* truth value of a `user` value: the empty string and the empty mapping are false
UserTruthy(user) == user \notin {UserStr(""), EmptyUserMap}

\* a mapping answers get('id', None); a bare identifier has no get and is returned
_get_annotation_user(ann) ==
    IF "user" \notin DOMAIN ann THEN None
    ELSE IF ~UserTruthy(ann.user) THEN None
    ELSE IF ann.user[1] = "map" THEN ann.user[2]
    ELSE ann.user[2]

\* before_request: the resolved user, else what is already bound, else None
before_request(resolved, bound) ==
    IF resolved # None THEN resolved
    ELSE IF bound # "unset" THEN bound
    ELSE None

GUsers == {before_request(r, b) : r \in Users \cup {None}, b \in {"unset"}}

\* the query arguments of a search request
OffsetArgs == {Absent, "1", "x"}
LimitArgs == {Absent, "1", "abc"}
ConsumerArgs == {Absent, "c1"}
SearchArgs ==
    {Opt("offset", o) @@ Opt("limit", l) @@ Opt("consumer", c) :
        o \in OffsetArgs, l \in LimitArgs, c \in ConsumerArgs}

Origins == {Absent, "http://o"}

\* int(): the strings that parse as an integer
IntOf == ("0" :> 0) @@ ("1" :> 1) @@ ("2" :> 2)

\* variant: the default of the caller is ignored
_quiet_int_m(obj, default) == IF obj \in DOMAIN IntOf THEN IntOf[obj] ELSE 0

_quiet_int(obj, default) == IF obj \in DOMAIN IntOf THEN IntOf[obj] ELSE default

DefaultOffset == 0
DefaultLimit == 20

_failed_authz_message(guser, msg) ==
    <<"Cannot authorize request", msg,
      IF guser # None THEN UserId(guser) ELSE None,
      IF guser # None THEN ConsumerKey(guser) ELSE None>>

----------------------------------------------------------------------------
(* Storage collaborator (annotator.annotation.Annotation) *)

fetch(st, id) == IF id \in DOMAIN st THEN st[id] ELSE EmptyRec

\* save: the first save assigns the id and the timestamps; a later save stores
\* the annotation under the id it has
IsFirstSave(ann) == "created" \notin DOMAIN ann \/ "id" \notin DOMAIN ann

Stamp(ann, nid) ==
    DictUpdate(ann,
        [id |-> IF IsFirstSave(ann) THEN nid ELSE ann.id,
         created |-> IF "created" \in DOMAIN ann THEN ann.created ELSE ServerTs,
         updated |-> IF "updated" \in DOMAIN ann THEN ann.updated ELSE ServerTs])

save(st, nid, ann) ==
    LET a == Stamp(ann, nid) IN
    [store |-> DictUpdate(st, (a.id :> a)),
     nextId |-> IF IsFirstSave(ann) THEN nid + 1 ELSE nid,
     ann |-> a]

delete(st, ann) == [k \in (DOMAIN st) \ {ann.id} |-> st[k]]

\* the query storage builds from the keyword arguments of search and count
StorageDefaultOffset == 0
StorageDefaultLimit == 20

_build_query(kwargs) ==
    [offset |-> IF "offset" \in DOMAIN kwargs THEN kwargs.offset ELSE StorageDefaultOffset,
     limit |-> IF "limit" \in DOMAIN kwargs THEN kwargs.limit ELSE StorageDefaultLimit,
     criteria |-> [k \in (DOMAIN kwargs) \ {"offset", "limit"} |-> kwargs[k]]]

Matches(ann, criteria) ==
    \A k \in DOMAIN criteria : k \in DOMAIN ann /\ ann[k] = criteria[k]

MatchingIds(st, criteria) == {i \in DOMAIN st : Matches(st[i], criteria)}

Min(S) == CHOOSE x \in S : \A y \in S : x <= y

RECURSIVE InIdOrder(_, _)
InIdOrder(st, ids) ==
    IF ids = {} THEN <<>>
    ELSE <<st[Min(ids)]>> \o InIdOrder(st, ids \ {Min(ids)})

Page(rows, offset, limit) ==
    IF offset >= Len(rows) THEN <<>>
    ELSE SubSeq(rows, offset + 1,
                IF offset + limit < Len(rows) THEN offset + limit ELSE Len(rows))

search(st, kwargs) ==
    LET q == _build_query(kwargs)
    IN  Page(InIdOrder(st, MatchingIds(st, q.criteria)), q.offset, q.limit)

count(st, kwargs) ==
    Cardinality(MatchingIds(st, _build_query(kwargs).criteria))

----------------------------------------------------------------------------
(* Responses and the request record *)

\* a request: the route, the id of the URL, g.user, the JSON body, the query
\* arguments, the Origin header, and what the authorization collaborator
\* answers for the annotation and the caller of this request, per action
Request(op, id, guser, json, args, origin, authz) ==
    [op |-> op, id |-> id, user |-> guser, json |-> json, args |-> args,
     origin |-> origin, authz |-> authz]

NoRequest == Request("none", 0, None, EmptyRec, EmptyRec, Absent, EmptyRec)

JsonAnn(ann) == [kind |-> "annotation", msg |-> <<>>, ann |-> ann, total |-> 0, rows |-> <<>>]
JsonMsg(m) == [kind |-> "message", msg |-> m, ann |-> EmptyRec, total |-> 0, rows |-> <<>>]
JsonList(rows) == [kind |-> "list", msg |-> <<>>, ann |-> EmptyRec, total |-> 0, rows |-> rows]
JsonSearch(total, rows) ==
    [kind |-> "search", msg |-> <<>>, ann |-> EmptyRec, total |-> total, rows |-> rows]
NoBody == [kind |-> "empty", msg |-> <<>>, ann |-> EmptyRec, total |-> 0, rows |-> <<>>]

NoHeaders == EmptyRec

Call(op, arg, res) == <<op, arg, res>>

\* after_request: the CORS headers of every response
after_request(r) ==
    [allow_origin |-> IF r.origin = Absent THEN "*" ELSE r.origin,
     expose_headers |-> "Content-Length, Content-Type, Location"]
    @@ (IF r.op = "options"
        THEN [allow_headers |-> "Content-Length, Content-Type, X-Annotator-Auth-Token, X-Requested-With",
              allow_methods |-> "GET, POST, PUT, DELETE, OPTIONS",
              max_age |-> "86400"]
        ELSE EmptyRec)

Init ==
    /\ store = EmptyRec
    /\ nextId = 1
    /\ deleted = {}
    /\ creator = EmptyRec
    /\ pc = "idle"
    /\ req = NoRequest
    /\ status = 0
    /\ body = NoBody
    /\ headers = NoHeaders
    /\ calls = <<>>
    /\ saveArgs = <<>>
    /\ queries = <<>>

\* what a request leaves: the response, and the trace of its calls
Respond(r, st, b, cs, sa) ==
    /\ pc' = "handled"
    /\ req' = r
    /\ status' = st
    /\ body' = b
    /\ headers' = after_request(r)
    /\ calls' = cs
    /\ saveArgs' = sa

FetchCall(annotation) == Call("fetch", "-", IF Truthy(annotation) THEN "found" ELSE "none")
AuthCall(action, granted) ==
    Call("authorize", action, IF granted THEN "granted" ELSE "denied")
HookCall(name) == Call("hook", name, "-")
SaveCall == Call("save", "-", "-")
DeleteCall == Call("delete", "-", "-")

\* _failed_authz_response
_failed_authz_response(r, msg, cs) ==
    Respond(r, 401, JsonMsg(_failed_authz_message(r.user, msg)), cs, <<>>)

----------------------------------------------------------------------------
(* ROOT: GET / and INDEX: GET /annotations *)

root(guser, origin) ==
    /\ pc = "idle"
    /\ Respond(Request("root", 0, guser, EmptyRec, EmptyRec, origin, EmptyRec),
               200, JsonMsg(<<"Annotator Store API">>), <<>>, <<>>)
    /\ queries' = <<>>
    /\ UNCHANGED <<store, nextId, deleted, creator>>

index(guser) ==
    /\ pc = "idle"
    /\ Respond(Request("index", 0, guser, EmptyRec, EmptyRec, Absent, EmptyRec),
               200, JsonList(search(store, EmptyRec)), <<Call("search", "-", "-")>>, <<>>)
    /\ queries' = <<_build_query(EmptyRec)>>
    /\ UNCHANGED <<store, nextId, deleted, creator>>

\* the answer the framework gives to a preflight request
options(guser, origin) ==
    /\ pc = "idle"
    /\ Respond(Request("options", 0, guser, EmptyRec, EmptyRec, origin, EmptyRec),
               200, NoBody, <<>>, <<>>)
    /\ queries' = <<>>
    /\ UNCHANGED <<store, nextId, deleted, creator>>

----------------------------------------------------------------------------
(* CREATE: POST /annotations *)

\* variant: the caller is never taken for anonymous
Anonymous_m(guser) == FALSE

\* g.user is None
Anonymous(guser) == guser = None

\* variant: a `user` of the body is kept as sent
CreatedAnnotation_m(guser, json) ==
    LET a0 == _filter_input(json, CREATE_FILTER_FIELDS)
        a1 == DictUpdate(a0, [consumer |-> ConsumerKey(guser)])
    IN  IF "user" \notin DOMAIN a1
        THEN DictUpdate(a1, [user |-> UserStr(UserId(guser))])
        ELSE a1

CreatedAnnotation(guser, json) ==
    LET a0 == _filter_input(json, CREATE_FILTER_FIELDS)
        a1 == DictUpdate(a0, [consumer |-> ConsumerKey(guser)])
    IN  IF _get_annotation_user(a1) # UserId(guser)
        THEN DictUpdate(a1, [user |-> UserStr(UserId(guser))])
        ELSE a1

create_annotation(guser, json) ==
    /\ pc = "idle"
    /\ queries' = <<>>
    /\ LET r == Request("create", 0, guser, json, EmptyRec, Absent, EmptyRec) IN
       IF Anonymous(guser)
       THEN /\ _failed_authz_response(r, "create annotation", <<>>)
            /\ UNCHANGED <<store, nextId, deleted, creator>>
       ELSE IF Truthy(json)
       THEN LET annotation == CreatedAnnotation(guser, json)
                s1 == save(store, nextId, annotation)
                s2 == save(s1.store, s1.nextId, s1.ann)
            IN  /\ nextId <= MaxAnnotations
                /\ \E hook \in BOOLEAN :
                     LET fin == IF hook THEN s2 ELSE s1 IN
                     /\ store' = fin.store
                     /\ nextId' = fin.nextId
                     /\ deleted' = deleted \ DOMAIN fin.store
                     /\ creator' = DictUpdate(creator, (fin.ann.id :> guser))
                     /\ Respond(r, 200, JsonAnn(fin.ann),
                                IF hook
                                THEN <<SaveCall, HookCall("after_annotation_create"), SaveCall>>
                                ELSE <<SaveCall>>,
                                IF hook THEN <<annotation, s1.ann>> ELSE <<annotation>>)
       ELSE /\ Respond(r, 400, JsonMsg(<<"No JSON payload sent. Annotation not created.">>),
                       <<>>, <<>>)
            /\ UNCHANGED <<store, nextId, deleted, creator>>

----------------------------------------------------------------------------
(* _check_action: a failure unless the authorization collaborator grants *)

authorize(authz, annotation, action, guser) == authz[action]

\* variant: the answer of the collaborator is dropped
_check_action_m(authz, annotation, action, guser) == FALSE

_check_action(authz, annotation, action, guser) ==
    ~authorize(authz, annotation, action, guser)

----------------------------------------------------------------------------
(* READ: GET /annotations/<id> *)

read_annotation(guser, id, authz) ==
    /\ pc = "idle"
    /\ queries' = <<>>
    /\ UNCHANGED <<store, nextId, deleted, creator>>
    /\ LET r == Request("read", id, guser, EmptyRec, EmptyRec, Absent, authz)
           annotation == fetch(store, id)
           cs == <<FetchCall(annotation), AuthCall("read", authz["read"])>>
       IN  IF ~Truthy(annotation)
           THEN Respond(r, 404, JsonMsg(<<"Annotation not found!">>),
                        <<FetchCall(annotation)>>, <<>>)
           ELSE IF _check_action(authz, annotation, "read", guser)
           THEN _failed_authz_response(r, "", cs)
           ELSE Respond(r, 200, JsonAnn(annotation), cs, <<>>)

----------------------------------------------------------------------------
(* UPDATE: POST or PUT /annotations/<id> *)

\* variant: the id of the body is kept
UpdatedFields_m(json, id) == _filter_input(json, UPDATE_FILTER_FIELDS)

\* the filtered body with the id of the URL
UpdatedFields(json, id) ==
    DictUpdate(_filter_input(json, UPDATE_FILTER_FIELDS), [id |-> id])

\* annotation.get('permissions', {})
StoredPermissions(annotation) ==
    IF "permissions" \in DOMAIN annotation THEN annotation.permissions ELSE {}

\* variant: permissions count as changed only against stored permissions
PermissionsChanged_m(updated, annotation) ==
    /\ "permissions" \in DOMAIN updated
    /\ "permissions" \in DOMAIN annotation
    /\ updated.permissions # annotation.permissions

PermissionsChanged(updated, annotation) ==
    /\ "permissions" \in DOMAIN updated
    /\ updated.permissions # StoredPermissions(annotation)

\* variant: the update replaces the annotation
Merged_m(annotation, updated) == updated

\* annotation.update(updated)
Merged(annotation, updated) == DictUpdate(annotation, updated)

Outcome(st, nid, code, b, cs, sa) ==
    [store |-> st, nextId |-> nid, status |-> code, body |-> b, calls |-> cs,
     saveArgs |-> sa]

\* the handler as a function of storage and the request; hook: a pre-update
\* hook is registered
update_outcome(st, nid, guser, id, json, authz, hook) ==
    LET annotation == fetch(st, id)
        updated == UpdatedFields(json, id)
        merged == Merged(annotation, updated)
        s1 == save(st, nid, merged)
        c0 == <<FetchCall(annotation), AuthCall("update", authz["update"])>>
        c1 == IF PermissionsChanged(updated, annotation)
              THEN Append(c0, AuthCall("admin", authz["admin"])) ELSE c0
        c2 == IF hook THEN Append(c1, HookCall("before_annotation_update")) ELSE c1
    IN  IF ~Truthy(annotation)
        THEN Outcome(st, nid, 404, JsonMsg(<<"Annotation not found! No update performed.">>),
                     <<FetchCall(annotation)>>, <<>>)
        ELSE IF _check_action(authz, annotation, "update", guser)
        THEN Outcome(st, nid, 401, JsonMsg(_failed_authz_message(guser, "")), c0, <<>>)
        ELSE IF ~Truthy(json)
        THEN Outcome(st, nid, 200, JsonAnn(annotation), c0, <<>>)
        ELSE IF /\ PermissionsChanged(updated, annotation)
                /\ _check_action(authz, annotation, "admin", guser)
        THEN Outcome(st, nid, 401,
                     JsonMsg(_failed_authz_message(guser, "permissions update")), c1, <<>>)
        ELSE Outcome(s1.store, s1.nextId, 200, JsonAnn(s1.ann), Append(c2, SaveCall),
                     <<merged>>)

update_annotation(guser, id, json, authz, hook) ==
    /\ pc = "idle"
    /\ queries' = <<>>
    /\ LET o == update_outcome(store, nextId, guser, id, json, authz, hook) IN
       /\ store' = o.store
       /\ nextId' = o.nextId
       /\ deleted' = deleted \ DOMAIN o.store
       /\ UNCHANGED creator
       /\ Respond(Request("update", id, guser, json, EmptyRec, Absent, authz),
                  o.status, o.body, o.calls, o.saveArgs)

----------------------------------------------------------------------------
(* DELETE: DELETE /annotations/<id> *)

\* variant: 204 without the call of delete
delete_annotation_m(guser, id, authz) ==
    /\ pc = "idle"
    /\ queries' = <<>>
    /\ UNCHANGED <<store, nextId, creator>>
    /\ LET r == Request("delete", id, guser, EmptyRec, EmptyRec, Absent, authz)
           annotation == fetch(store, id)
           c0 == <<FetchCall(annotation), AuthCall("delete", authz["delete"])>>
       IN  IF ~Truthy(annotation)
           THEN /\ Respond(r, 404, JsonMsg(<<"Annotation not found. No delete performed.">>),
                           <<FetchCall(annotation)>>, <<>>)
                /\ UNCHANGED deleted
           ELSE IF _check_action(authz, annotation, "delete", guser)
           THEN /\ _failed_authz_response(r, "", c0)
                /\ UNCHANGED deleted
           ELSE /\ deleted' = deleted \cup {annotation.id}
                /\ Respond(r, 204, NoBody, c0, <<>>)

delete_annotation(guser, id, authz) ==
    /\ pc = "idle"
    /\ queries' = <<>>
    /\ UNCHANGED nextId
    /\ LET r == Request("delete", id, guser, EmptyRec, EmptyRec, Absent, authz)
           annotation == fetch(store, id)
           c0 == <<FetchCall(annotation), AuthCall("delete", authz["delete"])>>
       IN  IF ~Truthy(annotation)
           THEN /\ Respond(r, 404, JsonMsg(<<"Annotation not found. No delete performed.">>),
                           <<FetchCall(annotation)>>, <<>>)
                /\ UNCHANGED <<store, deleted, creator>>
           ELSE IF _check_action(authz, annotation, "delete", guser)
           THEN /\ _failed_authz_response(r, "", c0)
                /\ UNCHANGED <<store, deleted, creator>>
           ELSE /\ store' = delete(store, annotation)
                /\ deleted' = deleted \cup {annotation.id}
                /\ creator' = [k \in (DOMAIN creator) \ {annotation.id} |-> creator[k]]
                /\ Respond(r, 204, NoBody, Append(c0, DeleteCall), <<>>)

----------------------------------------------------------------------------
(* SEARCH: GET /search *)

\* the keyword arguments handed to storage: offset and limit as integers
SearchKwargs(args) ==
    [k \in DOMAIN args |->
        IF k = "offset" THEN _quiet_int(args[k], DefaultOffset)
        ELSE IF k = "limit" THEN _quiet_int(args[k], DefaultLimit)
        ELSE args[k]]

SearchResponse(st, args) ==
    JsonSearch(count(st, SearchKwargs(args)), search(st, SearchKwargs(args)))

search_annotations(guser, args) ==
    /\ pc = "idle"
    /\ Respond(Request("search", 0, guser, EmptyRec, args, Absent, EmptyRec),
               200, SearchResponse(store, args),
               <<Call("search", "-", "-"), Call("count", "-", "-")>>, <<>>)
    /\ queries' = <<_build_query(SearchKwargs(args)), _build_query(SearchKwargs(args))>>
    /\ UNCHANGED <<store, nextId, deleted, creator>>

----------------------------------------------------------------------------
(* The response has left: the request context is dropped *)

finish_request ==
    /\ pc = "handled"
    /\ pc' = "idle"
    /\ req' = NoRequest
    /\ status' = 0
    /\ body' = NoBody
    /\ headers' = NoHeaders
    /\ calls' = <<>>
    /\ saveArgs' = <<>>
    /\ queries' = <<>>
    /\ UNCHANGED <<store, nextId, deleted, creator>>

Next ==
    \/ \E guser \in GUsers, origin \in Origins : root(guser, origin)
    \/ \E guser \in GUsers : index(guser)
    \/ \E guser \in GUsers, origin \in Origins : options(guser, origin)
    \/ \E guser \in GUsers, json \in Bodies : create_annotation(guser, json)
    \/ \E guser \in GUsers, id \in Ids, authz \in [{"read"} -> BOOLEAN] :
           read_annotation(guser, id, authz)
    \/ \E guser \in GUsers, id \in Ids, json \in Bodies,
          authz \in [{"update", "admin"} -> BOOLEAN], hook \in BOOLEAN :
           update_annotation(guser, id, json, authz, hook)
    \/ \E guser \in GUsers, id \in Ids, authz \in [{"delete"} -> BOOLEAN] :
           delete_annotation(guser, id, authz)
    \/ \E guser \in GUsers, args \in SearchArgs : search_annotations(guser, args)
    \/ finish_request

Spec == Init /\ [][Next]_vars

----------------------------------------------------------------------------
(* Properties *)

\* a request of route op has been handled
Handled(op) == pc = "handled" /\ req.op = op

\* this step handles a request of route op
Step(op) == pc = "idle" /\ pc' = "handled" /\ req'.op = op

\* the identity a `user` value names
Named(user) == user[2]

SameKey(a, b, k) ==
    /\ k \in DOMAIN a <=> k \in DOMAIN b
    /\ k \in DOMAIN a => a[k] = b[k]

CallOps(cs) == {cs[i][1] : i \in 1 .. Len(cs)}

\* C1: a create request with no identity bound (g.user is None) is answered
\* 401 whatever its body, and storage is left as it was.
C1_AnonymousCreateRefused ==
    [][ (Step("create") /\ req'.user = None)
        => /\ status' = 401
           /\ store' = store
           /\ nextId' = nextId
           /\ saveArgs' = <<>> ]_vars

C1_Witness ==
    /\ Handled("create")
    /\ req.user = None
    /\ Truthy(req.json)
    /\ status = 401
    /\ store # EmptyRec

\* C2: a create whose body names another identity in `user` (bare or as a
\* mapping with `id`) stores the caller's id as `user`; no stored annotation
\* has a `user` naming another identity than the caller that created it.
C2_CreateNeverImpersonates ==
    /\ (Handled("create") /\ status = 200 /\ "user" \in DOMAIN req.json
            /\ Named(req.json.user) # req.user)
       => /\ body.ann.user = UserStr(req.user)
          /\ store[body.ann.id].user = UserStr(req.user)
          /\ \A i \in 1 .. Len(saveArgs) : saveArgs[i].user = UserStr(req.user)
    /\ \A i \in DOMAIN store :
          /\ "user" \in DOMAIN store[i]
          /\ Named(store[i].user) = creator[i]

C2_Witness ==
    /\ Handled("create")
    /\ status = 200
    /\ "user" \in DOMAIN req.json
    /\ req.json.user = UserMap("u1")
    /\ req.user = "u2"
    /\ creator[body.ann.id] = "u2"

\* C3: `created`, `updated` and `consumer` of a create body are discarded
\* before the annotation is saved, and the stored `consumer` is the caller's
\* consumer key.
C3_CreateDiscardsProvenance ==
    (Handled("create") /\ status = 200
        /\ (DOMAIN req.json) \cap {"created", "updated", "consumer"} # {})
    => /\ \A k \in (DOMAIN req.json) \cap {"created", "updated", "consumer"} :
            /\ k \notin DOMAIN saveArgs[1] \/ saveArgs[1][k] # req.json[k]
            /\ store[body.ann.id][k] # req.json[k]
       /\ saveArgs[1].consumer = ConsumerKey(req.user)
       /\ store[body.ann.id].consumer = ConsumerKey(req.user)
       /\ body.ann.consumer = ConsumerKey(req.user)

C3_Witness ==
    /\ Handled("create")
    /\ status = 200
    /\ DOMAIN req.json = {"created", "updated", "consumer"}
    /\ store[body.ann.id].consumer = "c2"

\* C4: an update whose body changes `permissions` (against the stored value,
\* an absent one counting as the empty mapping), with `update` granted and
\* `admin` refused, is answered 401, leaves storage as it was and calls
\* neither the pre-update hook nor save.
C4_PermissionsNeedAdmin ==
    [][ (/\ Step("update")
         /\ req'.id \in DOMAIN store
         /\ "permissions" \in DOMAIN req'.json
         /\ req'.json.permissions #
               (IF "permissions" \in DOMAIN store[req'.id]
                THEN store[req'.id].permissions ELSE {})
         /\ req'.authz["update"]
         /\ ~req'.authz["admin"])
        => /\ status' = 401
           /\ store' = store
           /\ saveArgs' = <<>>
           /\ CallOps(calls') \cap {"hook", "save"} = {} ]_vars

C4_Witness ==
    /\ Handled("update")
    /\ status = 401
    /\ req.authz["update"]
    /\ ~req.authz["admin"]
    /\ req.json = [permissions |-> {"u1"}]
    /\ req.id \in DOMAIN store
    /\ "permissions" \notin DOMAIN store[req.id]

\* C5: with no pre-update hook registered, the annotation an update hands to
\* save, and the one stored after it, have the `user` and the `consumer`
\* that were stored before the update.
C5_UpdateKeepsOwnership ==
    [][ (Step("update") /\ saveArgs' # <<>> /\ "hook" \notin CallOps(calls'))
        => /\ SameKey(store[req'.id], saveArgs'[1], "user")
           /\ SameKey(store[req'.id], saveArgs'[1], "consumer")
           /\ SameKey(store[req'.id], store'[req'.id], "user")
           /\ SameKey(store[req'.id], store'[req'.id], "consumer") ]_vars

C5_Witness ==
    /\ Handled("update")
    /\ status = 200
    /\ saveArgs # <<>>
    /\ "hook" \notin CallOps(calls)
    /\ "user" \in DOMAIN req.json
    /\ Named(req.json.user) # Named(store[req.id].user)

\* C6: after an update with a JSON body on an existing annotation the
\* annotation is stored under the id of the URL and carries that id, whatever
\* `id` the body has; the other stored annotations are untouched.
C6_UpdateKeepsId ==
    [][ (Step("update") /\ req'.id \in DOMAIN store /\ Truthy(req'.json))
        => /\ DOMAIN store' = DOMAIN store
           /\ store'[req'.id].id = req'.id
           /\ \A j \in (DOMAIN store) \ {req'.id} : store'[j] = store[j]
           /\ \A i \in 1 .. Len(saveArgs') : saveArgs'[i].id = req'.id
           /\ status' = 200 => body'.ann.id = req'.id ]_vars

C6_Witness ==
    /\ Handled("update")
    /\ status = 200
    /\ saveArgs # <<>>
    /\ "id" \in DOMAIN req.json
    /\ req.json.id # req.id

C9_DeleteThenNotFound ==
    [][ /\ (Step("delete") /\ req'.id \in DOMAIN store /\ req'.authz["delete"])
           => /\ status' = 204
              /\ body' = NoBody
              /\ req'.id \notin DOMAIN store'
              /\ req'.id \in deleted'
        /\ (Step("read") /\ req'.id \in deleted) => status' = 404
        /\ deleted' \cap DOMAIN store' = {} ]_vars

C9_Witness ==
    /\ Handled("read")
    /\ req.id \in deleted
    /\ status = 404

\* C10: in a read, update or delete request fetch comes first; when it finds
\* nothing the response is 404 and authorize is not called; save and delete
\* are called only after authorize granted the base action of the request; a
\* denied base action gives 401 and leaves storage as it was.
C10_FetchAuthorizeMutate ==
    [][ \A op \in {"read", "update", "delete"} :
          Step(op)
          => /\ Len(calls') >= 1
             /\ calls'[1][1] = "fetch"
             /\ req'.id \notin DOMAIN store
                => /\ status' = 404
                   /\ calls' = <<Call("fetch", "-", "none")>>
                   /\ store' = store
             /\ \A i \in 1 .. Len(calls') :
                   calls'[i][1] \in {"save", "delete"}
                   => \E j \in 1 .. (i - 1) : calls'[j] = Call("authorize", op, "granted")
             /\ store' # store
                => /\ req'.authz[op]
                   /\ CallOps(calls') \cap {"save", "delete"} # {}
             /\ (req'.id \in DOMAIN store /\ ~req'.authz[op])
                => /\ status' = 401
                   /\ store' = store
                   /\ CallOps(calls') \cap {"save", "delete", "hook"} = {} ]_vars

C10_Witness ==
    /\ Handled("delete")
    /\ status = 401
    /\ req.id \in DOMAIN store
    /\ calls = <<Call("fetch", "-", "found"), Call("authorize", "delete", "denied")>>
====
